---- MODULE Spec2Model ----
(***************************************************************************)
(* gm-sm2-cipher: SM2 public-key encryption.                               *)
(*                                                                         *)
(* The Java class SM2Service (encrypt, decrypt, generateKeyPair, main)     *)
(* drives BouncyCastle's SM2Engine over the curve sm2p256v1; the           *)
(* TypeScript class SM2Service spawns that class as a child process.       *)
(*                                                                         *)
(* The elliptic curve is scaled down to the 7-point curve                  *)
(* y^2 = x^3 - 3x + 1 over GF(5) (prime order, cofactor 1, a = -3, like    *)
(* sm2p256v1), field elements are encoded in FieldLen bytes, and the       *)
(* digest SM3 is replaced by a small mixing function with DigestSize       *)
(* bytes of output.  Bytes are 0..255, characters are their code points.   *)
(***************************************************************************)
EXTENDS Integers, Sequences, FiniteSets, TLC

\* ------------------------------------------------------------ bounds
FieldLen   == 1     \* bytes of one encoded field element (32 for sm2p256v1)
DigestSize == 3     \* bytes of one digest (32 for SM3)
ShortLen   == 2     \* every plaintext of at most this many characters is tried
LongLen    == 4     \* length of the one long plaintext ('X' repeated)
MaxTries   == 3     \* attempts of the engine's encrypt loop that are followed

\* ------------------------------------------------------------ bytes, characters
Byte == 0..255

ChSpace == 32
ChNewline == 10
ChX == 88
ChA == 65

RECURSIVE XorBits(_, _, _)
XorBits(a, b, n) ==
    IF n = 0 THEN 0
    ELSE (((a % 2) + (b % 2)) % 2) + 2 * XorBits(a \div 2, b \div 2, n - 1)

\* a ^ b on bytes
Xor(a, b) == XorBits(a, b, 8)

RECURSIVE Pow2(_)
Pow2(n) == IF n = 0 THEN 1 ELSE 2 * Pow2(n - 1)

\* b ^ (1 << bit)
FlipBit(b, bit) == Xor(b, Pow2(bit))

SubSeqFrom(s, from) == SubSeq(s, from, Len(s))

\* BigIntegers.asUnsignedByteArray(len, v): big-endian, left-zero-padded
RECURSIVE I2OSP(_, _)
I2OSP(v, len) ==
    IF len = 0 THEN <<>> ELSE Append(I2OSP(v \div 256, len - 1), v % 256)

\* BigIntegers.fromUnsignedByteArray
RECURSIVE OS2IP(_)
OS2IP(s) ==
    IF s = <<>> THEN 0 ELSE 256 * OS2IP(SubSeq(s, 1, Len(s) - 1)) + s[Len(s)]

\* ------------------------------------------------------------ hex
\* '0'..'9' are 48..57, 'a'..'f' 97..102, 'A'..'F' 65..70
HexChar(v) == IF v < 10 THEN 48 + v ELSE 87 + v

IsLowerHexChar(c) == c \in 48..57 \/ c \in 97..102

IsHexChar(c) == IsLowerHexChar(c) \/ c \in 65..70

HexVal(c) == IF c \in 48..57 THEN c - 48 ELSE IF c \in 97..102 THEN c - 87 ELSE c - 55

\* Hex.toHexString(bytes): two lowercase digits per byte
RECURSIVE ToHexString(_)
ToHexString(bytes) ==
    IF bytes = <<>> THEN <<>>
    ELSE <<HexChar(bytes[1] \div 16), HexChar(bytes[1] % 16)>> \o ToHexString(Tail(bytes))

\* the whitespace Hex.decode skips
HexIgnore(c) == c \in {10, 13, 9, 32}

HexStrip(s) == SelectSeq(s, LAMBDA c : ~HexIgnore(c))

RECURSIVE HexPairs(_)
HexPairs(s) ==
    IF s = <<>> THEN <<>>
    ELSE <<16 * HexVal(s[1]) + HexVal(s[2])>> \o HexPairs(SubSeqFrom(s, 3))

\* Hex.decode(string): ok is FALSE where it throws DecoderException
HexDecode(s) ==
    LET t == HexStrip(s) IN
    IF (\E i \in 1..Len(t) : ~IsHexChar(t[i])) \/ Len(t) % 2 = 1
    THEN [ok |-> FALSE, bytes |-> <<>>]
    ELSE [ok |-> TRUE, bytes |-> HexPairs(t)]

\* BigInteger.toString(16): no leading zeros, "0" for zero
RECURSIVE ToString16(_)
ToString16(v) ==
    IF v < 16 THEN <<HexChar(v)>> ELSE Append(ToString16(v \div 16), HexChar(v % 16))

\* new BigInteger(hex, 16) for a string of hex digits
RECURSIVE ParseHex(_)
ParseHex(s) ==
    IF s = <<>> THEN 0 ELSE 16 * ParseHex(SubSeq(s, 1, Len(s) - 1)) + HexVal(s[Len(s)])

\* String.getBytes(UTF_8) on a string of one-byte (ASCII) characters, the only
\* ones the plaintexts below hold
Utf8Encode(str) == str

\* new String(bytes, UTF_8): an ASCII byte is its character, a byte that starts
\* no character decodes to U+FFFD
Utf8Decode(bytes) == [i \in 1..Len(bytes) |-> IF bytes[i] < 128 THEN bytes[i] ELSE 65533]

\* ------------------------------------------------------------ the curve
\* y^2 = x^3 + CurveA x + CurveB over GF(CurveP), CurveA = -3 mod CurveP,
\* base point G of prime order CurveN, cofactor CurveH
CurveP == 5
CurveA == 2
CurveB == 1
CurveN == 7
CurveH == 1

Infinity == [inf |-> TRUE, x |-> 0, y |-> 0]

Pt(x, y) == [inf |-> FALSE, x |-> x, y |-> y]

G == Pt(0, 1)

FInv(v) == CHOOSE w \in 1..(CurveP - 1) : (v * w) % CurveP = 1

OnCurve(x, y) == (y * y) % CurveP = (x * x * x + CurveA * x + CurveB) % CurveP

PAdd(p, q) ==
    IF p.inf THEN q
    ELSE IF q.inf THEN p
    ELSE IF p.x = q.x /\ (p.y + q.y) % CurveP = 0 THEN Infinity
    ELSE LET l == IF p = q
                  THEN ((3 * p.x * p.x + CurveA) * FInv((2 * p.y) % CurveP)) % CurveP
                  ELSE ((q.y - p.y + CurveP) * FInv((q.x - p.x + CurveP) % CurveP)) % CurveP
             x == (l * l + 2 * CurveP - p.x - q.x) % CurveP
         IN Pt(x, (l * (p.x - x + CurveP) + CurveP - p.y) % CurveP)

\* ECPoint.multiply(k)
RECURSIVE PMul(_, _)
PMul(k, p) == IF k = 0 THEN Infinity ELSE PAdd(PMul(k - 1, p), p)

\* ECPoint.getEncoded(false): 04 || X || Y, and 00 for the point at infinity
EncodePoint(p) ==
    IF p.inf THEN <<0>> ELSE <<4>> \o I2OSP(p.x, FieldLen) \o I2OSP(p.y, FieldLen)

C1Len == 2 * FieldLen + 1

\* ECCurve.decodePoint(encoded): ok is FALSE where it throws
\* IllegalArgumentException (an empty array: ArrayIndexOutOfBoundsException)
DecodePoint(enc) ==
    LET Fail(m) == [ok |-> FALSE, pt |-> Infinity, msg |-> m]
        X == OS2IP(SubSeq(enc, 2, 1 + FieldLen))
        Y == OS2IP(SubSeq(enc, 2 + FieldLen, C1Len))
    IN
    IF enc = <<>> THEN Fail("Index 0 out of bounds for length 0")
    ELSE IF enc[1] = 0 THEN
        IF Len(enc) # 1 THEN Fail("Incorrect length for infinity encoding")
        ELSE [ok |-> TRUE, pt |-> Infinity, msg |-> ""]
    ELSE IF enc[1] \in {2, 3} THEN
        IF Len(enc) # FieldLen + 1 THEN Fail("Incorrect length for compressed encoding")
        ELSE IF X >= CurveP THEN Fail("x value invalid in Fp field element")
        ELSE IF ~\E y \in 0..(CurveP - 1) : OnCurve(X, y) THEN Fail("Invalid point compression")
        ELSE LET y0 == CHOOSE y \in 0..(CurveP - 1) : OnCurve(X, y)
                 y1 == IF y0 % 2 = enc[1] % 2 THEN y0 ELSE (CurveP - y0) % CurveP
             IN [ok |-> TRUE, pt |-> Pt(X, y1), msg |-> ""]
    ELSE IF enc[1] \in {4, 6, 7} THEN
        IF Len(enc) # C1Len THEN
            Fail(IF enc[1] = 4 THEN "Incorrect length for uncompressed encoding"
                 ELSE "Incorrect length for hybrid encoding")
        ELSE IF enc[1] # 4 /\ Y % 2 # enc[1] % 2
            THEN Fail("Inconsistent Y coordinate in hybrid encoding")
        ELSE IF X >= CurveP \/ Y >= CurveP THEN Fail("x value invalid in Fp field element")
        ELSE IF ~OnCurve(X, Y) THEN Fail("Invalid point coordinates")
        ELSE [ok |-> TRUE, pt |-> Pt(X, Y), msg |-> ""]
    ELSE Fail("Invalid point encoding")

\* ------------------------------------------------------------ the digest
HashMod == 32749
HashMul == 123
HashAdd == 107

RECURSIVE HashLane(_, _, _)
HashLane(input, lane, acc) ==
    IF input = <<>> THEN acc % 256
    ELSE HashLane(Tail(input), lane,
                  (acc * acc + (input[1] + 1) * (HashMul + lane) + HashAdd) % HashMod)

\* H(input): DigestSize bytes
Hash(input) == [lane \in 1..DigestSize |-> HashLane(input, lane, lane)]

\* ------------------------------------------------------------ SM2Engine
\* the 4-byte block counter of the KDF
CtLen == 4

PointZ(s) == I2OSP(s.x, FieldLen) \o I2OSP(s.y, FieldLen)

\* the first len bytes of H(x2 || y2 || ct) || H(x2 || y2 || ct+1) || ...
RECURSIVE KdfStream(_, _, _)
KdfStream(z, ct, len) ==
    IF len <= 0 THEN <<>>
    ELSE LET blk == Hash(z \o I2OSP(ct, CtLen))
         IN IF len <= DigestSize THEN SubSeq(blk, 1, len)
            ELSE blk \o KdfStream(z, ct + 1, len - DigestSize)

\* SM2Engine.kdf(digest, c1, encData): encData XOR the key stream of point s
Kdf(s, data) ==
    LET t == KdfStream(PointZ(s), 1, Len(data))
    IN [i \in 1..Len(data) |-> Xor(data[i], t[i])]

\* C3 = H(x2 || M || y2)
Mac(s, m) == Hash(I2OSP(s.x, FieldLen) \o m \o I2OSP(s.y, FieldLen))

\* EncryptPass with the ephemeral scalar stuck at 1 (a random source that
\* repeats itself)
EncryptPass_FixedK(mode, in, Q, k) ==
    LET c1  == EncodePoint(PMul(1, G))
        kPB == PMul(1, Q)
        c2  == Kdf(kPB, in)
        c3  == Mac(kPB, in)
    IN [retry |-> c2 = in,
        out   |-> IF mode = "C1C3C2" THEN c1 \o c3 \o c2 ELSE c1 \o c2 \o c3]

\* EncryptPass without the test that the key stream changed the input
EncryptPass_NoRetry(mode, in, Q, k) ==
    LET c1  == EncodePoint(PMul(k, G))
        kPB == PMul(k, Q)
        c2  == Kdf(kPB, in)
        c3  == Mac(kPB, in)
    IN [retry |-> FALSE,
        out   |-> IF mode = "C1C3C2" THEN c1 \o c3 \o c2 ELSE c1 \o c2 \o c3]

\* EncryptPass that pads C2 with a zero byte
EncryptPass_PaddedC2(mode, in, Q, k) ==
    LET c1  == EncodePoint(PMul(k, G))
        kPB == PMul(k, Q)
        c2  == Kdf(kPB, in) \o <<0>>
        c3  == Mac(kPB, in)
    IN [retry |-> Kdf(kPB, in) = in,
        out   |-> IF mode = "C1C3C2" THEN c1 \o c3 \o c2 ELSE c1 \o c2 \o c3]

\* One pass of the do-while loop of SM2Engine.encrypt with ephemeral scalar k:
\* retry is notEncrypted(c2, in), out the ciphertext the pass would return
EncryptPass(mode, in, Q, k) ==
    LET c1  == EncodePoint(PMul(k, G))
        kPB == PMul(k, Q)
        c2  == Kdf(kPB, in)
        c3  == Mac(kPB, in)
    IN [retry |-> c2 = in,
        out   |-> IF mode = "C1C3C2" THEN c1 \o c3 \o c2 ELSE c1 \o c2 \o c3]

\* EngineDecrypt without the comparison of C3
EngineDecrypt_NoMacCheck(mode, in, d, rejectsEmpty) ==
    LET Fail(m) == [ok |-> FALSE, out |-> <<>>, msg |-> m]
        c1  == SubSeq(in, 1, C1Len)
        dec == DecodePoint(c1)
        s   == PMul(d, dec.pt)
        n2  == Len(in) - C1Len - DigestSize
        c2  == IF mode = "C1C3C2" THEN SubSeqFrom(in, C1Len + DigestSize + 1)
               ELSE SubSeq(in, C1Len + 1, C1Len + n2)
    IN
    IF Len(in) = 0 /\ rejectsEmpty THEN Fail("input buffer too short")
    ELSE IF Len(in) < C1Len THEN Fail("arraycopy: last source index out of bounds")
    ELSE IF ~dec.ok THEN Fail(dec.msg)
    ELSE IF PMul(CurveH, dec.pt).inf THEN Fail("[h]C1 at infinity")
    ELSE IF n2 < 0 THEN Fail("NegativeArraySizeException")
    ELSE [ok |-> TRUE, out |-> Kdf(s, c2), msg |-> ""]

\* SM2Engine.processBlock(in, 0, in.length) initialised for decryption with
\* private scalar d.  rejectsEmpty: the library build checks inLen == 0 first.
EngineDecrypt(mode, in, d, rejectsEmpty) ==
    LET Fail(m) == [ok |-> FALSE, out |-> <<>>, msg |-> m]
        c1  == SubSeq(in, 1, C1Len)
        dec == DecodePoint(c1)
        s   == PMul(d, dec.pt)
        n2  == Len(in) - C1Len - DigestSize
        c2  == IF mode = "C1C3C2" THEN SubSeqFrom(in, C1Len + DigestSize + 1)
               ELSE SubSeq(in, C1Len + 1, C1Len + n2)
        m   == Kdf(s, c2)
        c3  == Mac(s, m)
        tag == IF mode = "C1C3C2" THEN SubSeq(in, C1Len + 1, C1Len + DigestSize)
               ELSE SubSeqFrom(in, C1Len + n2 + 1)
    IN
    IF Len(in) = 0 /\ rejectsEmpty THEN Fail("input buffer too short")
    ELSE IF Len(in) < C1Len THEN Fail("arraycopy: last source index out of bounds")
    ELSE IF ~dec.ok THEN Fail(dec.msg)
    ELSE IF PMul(CurveH, dec.pt).inf THEN Fail("[h]C1 at infinity")
    ELSE IF n2 < 0 THEN Fail("NegativeArraySizeException")
    ELSE IF c3 # tag THEN Fail("invalid cipher text")
    ELSE [ok |-> TRUE, out |-> m, msg |-> ""]

\* ------------------------------------------------------------ SM2Service (Java)
Returned(v, attempts, layout) ==
    [ok |-> TRUE, value |-> v, msg |-> <<>>, attempts |-> attempts, layout |-> layout]

Thrown(m, attempts) ==
    [ok |-> FALSE, value |-> <<>>, msg |-> m, attempts |-> attempts, layout |-> "none"]

\* the strings new BigInteger(s, 16) parses (a sign is not modelled)
IsHexNumber(str) == str # <<>> /\ \A i \in 1..Len(str) : IsHexChar(str[i])

\* the literal 64 of generateKeyPair's padding loop: two digits per key byte
PrivHexLen == 2 * FieldLen

\* generateKeyPair without its padding loop
PadKey_NoPad(str) == str

\* while (privateKey.length() < 64) privateKey = "0" + privateKey
RECURSIVE PadKey(_)
PadKey(str) == IF Len(str) < PrivHexLen THEN PadKey(<<48>> \o str) ELSE str

\* a generator that may draw zero
KeyScalars_FromZero == 0..(CurveN - 1)

\* the scalars ECKeyPairGenerator and SM2Engine.nextK draw from: [1, n-1]
KeyScalars == 1..(CurveN - 1)

EphemeralScalars == 1..(CurveN - 1)

\* SM2Service.generateKeyPair() when the generator drew d
ServiceGenerateKeyPair(d) ==
    [priv |-> PadKey(ToString16(d)),
     pub  |-> ToHexString(EncodePoint(PMul(d, G)))]

\* encrypt whose ECPublicKeyParameters takes the point at infinity
EncryptPrepare_AcceptsInfinity(plainText, pubKey) ==
    LET hex == HexDecode(pubKey)
        dec == DecodePoint(hex.bytes)
        Fail(m) == [ok |-> FALSE, bytes |-> <<>>, Q |-> Infinity, msg |-> m]
    IN IF ~hex.ok THEN Fail("exception decoding Hex string")
       ELSE IF ~dec.ok THEN Fail(dec.msg)
       ELSE [ok |-> TRUE, bytes |-> Utf8Encode(plainText), Q |-> dec.pt, msg |-> ""]

\* SM2Service.encrypt up to sm2Engine.init: the plaintext bytes and the public
\* point, or the exception of Hex.decode, decodePoint or ECPublicKeyParameters
EncryptPrepare(plainText, pubKey) ==
    LET hex == HexDecode(pubKey)
        dec == DecodePoint(hex.bytes)
        Fail(m) == [ok |-> FALSE, bytes |-> <<>>, Q |-> Infinity, msg |-> m]
    IN IF ~hex.ok THEN Fail("exception decoding Hex string")
       ELSE IF ~dec.ok THEN Fail(dec.msg)
       ELSE IF dec.pt.inf THEN Fail("Point at infinity")
       ELSE [ok |-> TRUE, bytes |-> Utf8Encode(plainText), Q |-> dec.pt, msg |-> ""]

\* catch (Exception e) of encrypt
EncryptThrown(m) == Thrown(<<"SM2 encryption failed: ", m>>, 0)

\* return Hex.toHexString(encryptedBytes)
EncryptReturned(out) == Returned(ToHexString(out), 1, "C1C3C2")

\* decrypt without the fallback to C1C2C3
ServiceDecrypt_NoFallback(cipherData, privateKey, rejectsEmpty) ==
    LET hex == HexDecode(cipherData)
        d   == ParseHex(privateKey)
        a1  == EngineDecrypt("C1C3C2", hex.bytes, d, rejectsEmpty)
    IN IF ~hex.ok THEN
           Thrown(<<"SM2 decryption failed: ", "exception decoding Hex string">>, 0)
       ELSE IF ~IsHexNumber(privateKey) THEN
           Thrown(<<"SM2 decryption failed: ", "NumberFormatException">>, 0)
       ELSE IF a1.ok THEN Returned(Utf8Decode(a1.out), 1, "C1C3C2")
       ELSE Thrown(<<"SM2 decryption failed: ", a1.msg>>, 1)

\* decrypt whose second catch block returns the input instead of throwing
ServiceDecrypt_Swallows(cipherData, privateKey, rejectsEmpty) ==
    LET hex == HexDecode(cipherData)
        d   == ParseHex(privateKey)
        a1  == EngineDecrypt("C1C3C2", hex.bytes, d, rejectsEmpty)
        a2  == EngineDecrypt("C1C2C3", hex.bytes, d, rejectsEmpty)
    IN IF ~hex.ok THEN
           Thrown(<<"SM2 decryption failed: ", "exception decoding Hex string">>, 0)
       ELSE IF ~IsHexNumber(privateKey) THEN
           Thrown(<<"SM2 decryption failed: ", "NumberFormatException">>, 0)
       ELSE IF a1.ok THEN Returned(Utf8Decode(a1.out), 1, "C1C3C2")
       ELSE IF a2.ok THEN Returned(Utf8Decode(a2.out), 2, "C1C2C3")
       ELSE Returned(Utf8Decode(hex.bytes), 2, "none")

\* decrypt that answers a ciphertext too short to hold C1 and C3 with the
\* empty string
ServiceDecrypt_ShortIsEmpty(cipherData, privateKey, rejectsEmpty) ==
    LET hex == HexDecode(cipherData)
        d   == ParseHex(privateKey)
        a1  == EngineDecrypt("C1C3C2", hex.bytes, d, rejectsEmpty)
        a2  == EngineDecrypt("C1C2C3", hex.bytes, d, rejectsEmpty)
    IN IF ~hex.ok THEN
           Thrown(<<"SM2 decryption failed: ", "exception decoding Hex string">>, 0)
       ELSE IF ~IsHexNumber(privateKey) THEN
           Thrown(<<"SM2 decryption failed: ", "NumberFormatException">>, 0)
       ELSE IF Len(hex.bytes) < C1Len + DigestSize THEN Returned(<<>>, 0, "none")
       ELSE IF a1.ok THEN Returned(Utf8Decode(a1.out), 1, "C1C3C2")
       ELSE IF a2.ok THEN Returned(Utf8Decode(a2.out), 2, "C1C2C3")
       ELSE Thrown(<<"SM2 decryption failed: ",
                     "SM2 decryption failed with both C1C3C2 and C1C2C3 modes: ",
                     a2.msg>>, 2)

\* decrypt that decodes the hex string anew in each attempt
ServiceDecrypt_DecodesPerAttempt(cipherData, privateKey, rejectsEmpty) ==
    LET hex == HexDecode(cipherData)
        d   == ParseHex(privateKey)
        a1  == EngineDecrypt("C1C3C2", hex.bytes, d, rejectsEmpty)
        a2  == EngineDecrypt("C1C2C3", hex.bytes, d, rejectsEmpty)
    IN IF ~IsHexNumber(privateKey) THEN
           Thrown(<<"SM2 decryption failed: ", "NumberFormatException">>, 0)
       ELSE IF hex.ok /\ a1.ok THEN Returned(Utf8Decode(a1.out), 1, "C1C3C2")
       ELSE IF hex.ok /\ a2.ok THEN Returned(Utf8Decode(a2.out), 2, "C1C2C3")
       ELSE Thrown(<<"SM2 decryption failed: ",
                     "SM2 decryption failed with both C1C3C2 and C1C2C3 modes: ",
                     IF hex.ok THEN a2.msg ELSE "exception decoding Hex string">>, 2)

\* decrypt that tries C1C2C3 first and falls back to C1C3C2
ServiceDecrypt_FallbackFirst(cipherData, privateKey, rejectsEmpty) ==
    LET hex == HexDecode(cipherData)
        d   == ParseHex(privateKey)
        a1  == EngineDecrypt("C1C2C3", hex.bytes, d, rejectsEmpty)
        a2  == EngineDecrypt("C1C3C2", hex.bytes, d, rejectsEmpty)
    IN IF ~hex.ok THEN
           Thrown(<<"SM2 decryption failed: ", "exception decoding Hex string">>, 0)
       ELSE IF ~IsHexNumber(privateKey) THEN
           Thrown(<<"SM2 decryption failed: ", "NumberFormatException">>, 0)
       ELSE IF a1.ok THEN Returned(Utf8Decode(a1.out), 1, "C1C2C3")
       ELSE IF a2.ok THEN Returned(Utf8Decode(a2.out), 2, "C1C3C2")
       ELSE Thrown(<<"SM2 decryption failed: ",
                     "SM2 decryption failed with both C1C3C2 and C1C2C3 modes: ",
                     a2.msg>>, 2)

\* SM2Service.decrypt(cipherData) of an instance holding privateKey
ServiceDecrypt(cipherData, privateKey, rejectsEmpty) ==
    LET hex == HexDecode(cipherData)
        d   == ParseHex(privateKey)
        a1  == EngineDecrypt("C1C3C2", hex.bytes, d, rejectsEmpty)
        a2  == EngineDecrypt("C1C2C3", hex.bytes, d, rejectsEmpty)
    IN IF ~hex.ok THEN
           Thrown(<<"SM2 decryption failed: ", "exception decoding Hex string">>, 0)
       ELSE IF ~IsHexNumber(privateKey) THEN
           Thrown(<<"SM2 decryption failed: ", "NumberFormatException">>, 0)
       ELSE IF a1.ok THEN Returned(Utf8Decode(a1.out), 1, "C1C3C2")
       ELSE IF a2.ok THEN Returned(Utf8Decode(a2.out), 2, "C1C2C3")
       ELSE Thrown(<<"SM2 decryption failed: ",
                     "SM2 decryption failed with both C1C3C2 and C1C2C3 modes: ",
                     a2.msg>>, 2)

\* main: System.out.println(result); exit(0), or
\* System.err.println(prefix + e.getMessage()); exit(1)
MainFinish(prefix, outcome) ==
    IF outcome.ok
    THEN [stdout |-> outcome.value \o <<ChNewline>>, stderr |-> <<>>, code |-> 0]
    ELSE [stdout |-> <<>>, stderr |-> <<prefix>> \o outcome.msg \o <<"\n">>, code |-> 1]

\* "Private Key: " and "Public Key: "
PrivateKeyLabel == <<80, 114, 105, 118, 97, 116, 101, 32, 75, 101, 121, 58, 32>>

PublicKeyLabel == <<80, 117, 98, 108, 105, 99, 32, 75, 101, 121, 58, 32>>

\* "SM2 Encryption/Decryption Service is available"
AvailableText ==
    <<83, 77, 50, 32, 69, 110, 99, 114, 121, 112, 116, 105, 111, 110, 47, 68,
      101, 99, 114, 121, 112, 116, 105, 111, 110, 32, 83, 101, 114, 118, 105, 99,
      101, 32, 105, 115, 32, 97, 118, 97, 105, 108, 97, 98, 108, 101>>

\* main --test: System.out.println(...); exit(0)
MainTest == [stdout |-> AvailableText \o <<ChNewline>>, stderr |-> <<>>, code |-> 0]

\* main --generate-keypair: the two lines on stdout and exit(0), or
\* System.err.println("Key generation failed: " + e.getMessage()); exit(1)
MainGenerateKeyPair(outcome) ==
    IF outcome.ok
    THEN [stdout |-> PrivateKeyLabel \o outcome.value[1] \o <<ChNewline>>
                     \o PublicKeyLabel \o outcome.value[2] \o <<ChNewline>>,
          stderr |-> <<>>, code |-> 0]
    ELSE [stdout |-> <<>>,
          stderr |-> <<"Key generation failed: ">> \o outcome.msg \o <<"\n">>,
          code |-> 1]

\* the usage text main prints for no arguments
MainUsage ==
    [stdout |-> <<>>,
     stderr |-> <<"Usage:\n",
                  "  java SM2Service --test\n",
                  "  java SM2Service --generate-keypair\n",
                  "  java SM2Service --encrypt <plaintext> --public-key <publicKey>\n",
                  "  java SM2Service --decrypt <encryptedData> --private-key <privateKey>\n">>,
     code |-> 1]

\* what main prints for arguments of no known shape
MainInvalid ==
    [stdout |-> <<>>,
     stderr |-> <<"Invalid arguments.\n",
                  "Use --test, --generate-keypair, --encrypt <plaintext> --public-key <key>, or --decrypt <data> --private-key <key>\n">>,
     code |-> 1]

\* one command-line argument: an option name main knows, or any other text
Flag(name) == [flag |-> name, text |-> <<>>]

Text(str) == [flag |-> "", text |-> str]

\* the chain of if statements of main: the branch the arguments take
MainBranch(args) ==
    IF Len(args) = 0 THEN "usage"
    ELSE IF Len(args) = 1 /\ args[1].flag = "--test" THEN "test"
    ELSE IF Len(args) = 1 /\ args[1].flag = "--generate-keypair" THEN "generate-keypair"
    ELSE IF Len(args) = 4 /\ args[1].flag = "--encrypt" /\ args[3].flag = "--public-key"
         THEN "encrypt"
    ELSE IF Len(args) = 4 /\ args[1].flag = "--decrypt" /\ args[3].flag = "--private-key"
         THEN "decrypt"
    ELSE "invalid"

\* ------------------------------------------------------------ SM2Service (wrapper)
\* the white space String.prototype.trim removes
IsJsSpace(c) == c \in {9, 10, 11, 12, 13, 32, 160, 5760, 8232, 8233, 8239, 8287, 12288, 65279}
                \/ c \in 8192..8202

RECURSIVE TrimStart(_)
TrimStart(str) ==
    IF str # <<>> /\ IsJsSpace(str[1]) THEN TrimStart(Tail(str)) ELSE str

RECURSIVE TrimEnd(_)
TrimEnd(str) ==
    IF str # <<>> /\ IsJsSpace(str[Len(str)]) THEN TrimEnd(SubSeq(str, 1, Len(str) - 1))
    ELSE str

Trim(str) == TrimEnd(TrimStart(str))

Pending == [state |-> "pending", value |-> <<>>, error |-> <<>>]

\* an optional string argument: undefined, or the string passed
Undefined == [given |-> FALSE, str |-> <<>>]

Given(str) == [given |-> TRUE, str |-> str]

\* opt || dflt: undefined and the empty string are both falsy
OrElse(opt, dflt) == IF opt.given /\ opt.str # <<>> THEN opt.str ELSE dflt

\* a constructor that falls back to a key of its own instead of ''
CtorPublicKey_Default(publicKey) == OrElse(publicKey, <<48, 52>>)

\* constructor: this.publicKey = publicKey || ''
CtorPublicKey(publicKey) == OrElse(publicKey, <<>>)

\* encrypt that prefers the constructor's key to its argument
EncryptPubKey_CtorFirst(publicKey, thisPublicKey) ==
    IF thisPublicKey # <<>> THEN thisPublicKey ELSE publicKey.str

\* encrypt: const pubKey = publicKey || this.publicKey
EncryptPubKey(publicKey, thisPublicKey) == OrElse(publicKey, thisPublicKey)

\* if (!pubKey) throw new Error('Public key is required for encryption'):
\* the async function's promise rejects, spawn is not reached
NoPublicKey ==
    [state |-> "rejected", value |-> <<>>, error |-> <<"Public key is required for encryption">>]

\* the code 'close' passes for a child that a signal ended: null.  Exit codes
\* are 0..255 and the code of a failed spawn is a negative errno, so a number
\* outside both stands for it.
ExitNull == 256

\* 'Process exited with code ' + code
CodeText(code) == IF code = ExitNull THEN "null" ELSE ToString(code)

\* stderr || 'Process exited with code ' + code
StderrOrCode(proc) ==
    IF proc.stderr # <<>> THEN proc.stderr
    ELSE <<"Process exited with code ", CodeText(proc.code)>>

\* a close handler that resolves whatever the exit code is
OnClose_IgnoresCode(prefix, proc) ==
    [state |-> "resolved", value |-> Trim(proc.stdout), error |-> <<>>]

\* javaProcess.on('close', code => ...) of encrypt and decrypt
OnClose(prefix, proc) ==
    IF proc.code # 0
    THEN [state |-> "rejected", value |-> <<>>,
          error |-> <<prefix>> \o StderrOrCode(proc)]
    ELSE [state |-> "resolved", value |-> Trim(proc.stdout), error |-> <<>>]

\* String.prototype.split with a one-character separator
RECURSIVE Split(_, _)
Split(str, sep) ==
    IF \E i \in 1..Len(str) : str[i] = sep
    THEN LET i == CHOOSE i \in 1..Len(str) :
                      str[i] = sep /\ \A j \in 1..(i - 1) : str[j] # sep
         IN <<SubSeq(str, 1, i - 1)>> \o Split(SubSeqFrom(str, i + 1), sep)
    ELSE <<str>>

\* String.prototype.startsWith
StartsWith(str, prefix) ==
    Len(str) >= Len(prefix) /\ SubSeq(str, 1, Len(prefix)) = prefix

\* lines.find(line => line.startsWith(label)): the first such line, or undefined
FindLine(lines, label) ==
    LET hits == {i \in 1..Len(lines) : StartsWith(lines[i], label)}
    IN IF hits = {} THEN Undefined
       ELSE Given(lines[CHOOSE i \in hits : \A j \in hits : i <= j])

\* String.prototype.replace(pattern, '') with a string pattern: the first
\* occurrence is removed
RemoveFirst(str, pattern) ==
    LET at == {i \in 1..(Len(str) - Len(pattern) + 1) :
                  SubSeq(str, i, i + Len(pattern) - 1) = pattern}
    IN IF at = {} THEN str
       ELSE LET i == CHOOSE i \in at : \A j \in at : i <= j
            IN SubSeq(str, 1, i - 1) \o SubSeqFrom(str, i + Len(pattern))

\* a close handler that resolves with the lines it found, '' for a missing one
OnCloseKeyPair_Partial(proc) ==
    LET lines          == Split(Trim(proc.stdout), ChNewline)
        privateKeyLine == FindLine(lines, PrivateKeyLabel)
        publicKeyLine  == FindLine(lines, PublicKeyLabel)
    IN [state |-> "resolved",
        value |-> <<Trim(RemoveFirst(privateKeyLine.str, PrivateKeyLabel)),
                    Trim(RemoveFirst(publicKeyLine.str, PublicKeyLabel))>>,
        error |-> <<>>]

\* javaProcess.on('close', code => ...) of generateKeyPair; the object
\* { privateKey, publicKey } is the pair <<privateKey, publicKey>>
OnCloseKeyPair(proc) ==
    IF proc.code # 0
    THEN [state |-> "rejected", value |-> <<>>,
          error |-> <<"SM2 key generation failed: ">> \o StderrOrCode(proc)]
    ELSE LET lines          == Split(Trim(proc.stdout), ChNewline)
             privateKeyLine == FindLine(lines, PrivateKeyLabel)
             publicKeyLine  == FindLine(lines, PublicKeyLabel)
         IN IF ~privateKeyLine.given \/ ~publicKeyLine.given
            THEN [state |-> "rejected", value |-> <<>>,
                  error |-> <<"Failed to parse key pair from output">>]
            ELSE [state |-> "resolved",
                  value |-> <<Trim(RemoveFirst(privateKeyLine.str, PrivateKeyLabel)),
                              Trim(RemoveFirst(publicKeyLine.str, PublicKeyLabel))>>,
                  error |-> <<>>]

\* javaProcess.on('close', code => resolve(code === 0)) of isAvailable; the
\* boolean is the one-element sequence of its name
OnCloseAvailable(proc) ==
    [state |-> "resolved", value |-> <<IF proc.code = 0 THEN "true" ELSE "false">>,
     error |-> <<>>]

\* javaProcess.on('error', () => resolve(false)) of isAvailable
OnErrorAvailable == [state |-> "resolved", value |-> <<"false">>, error |-> <<>>]

\* ------------------------------------------------------------ state
VARIABLES
    keyPair,    \* the pair the last generateKeyPair returned
    enc,        \* the encrypt call in progress: its arguments and loop counter
    cipher,     \* the ciphertext at hand, with how it was made
    prev,       \* the ciphertext an earlier encrypt call of the same arguments returned
    last,       \* the last call: what the Java method did, the child process's
                \* output and exit code, and the wrapper's promise
    calls,      \* the wrapper calls running at the same time: each one's child
                \* process, stdout and stderr buffers and promise
    instance    \* the fields of the wrapper instance the overlapping calls are
                \* made on

vars == <<keyPair, enc, cipher, prev, last, calls, instance>>

Modes == {"C1C3C2", "C1C2C3"}

NoKeys == [priv |-> <<>>, pub |-> <<>>]

Idle == [pc |-> "idle", plain |-> <<>>, pub |-> <<>>, tries |-> 0]

NoCipher == [hex |-> <<>>, plain |-> <<>>, pub |-> <<>>, k |-> 0, mode |-> "none",
             by |-> "none", flip |-> <<>>, cut |-> FALSE, garbled |-> FALSE,
             tries |-> 0]

NoProc == [stdout |-> <<>>, stderr |-> <<>>, code |-> 0]

NoCall == [op |-> "none", arg |-> <<>>, priv |-> <<>>, pub |-> <<>>, ctor |-> Undefined,
           key |-> Undefined, spawned |-> FALSE, java |-> Thrown(<<>>, 0),
           proc |-> NoProc, promise |-> Pending]

\* a call whose child process ran main to its exit and whose close handler ran
Finished(op, arg, priv, prefixJava, prefixJs, outcome) ==
    LET proc == MainFinish(prefixJava, outcome)
    IN [NoCall EXCEPT !.op = op, !.arg = arg, !.priv = priv, !.spawned = TRUE,
                      !.java = outcome, !.proc = proc,
                      !.promise = OnClose(prefixJs, proc)]

SeqsUpTo(S, n) == UNION {[1..m -> S] : m \in 0..n}

LongText == [i \in 1..LongLen |-> ChX]

Plaintexts == SeqsUpTo({ChSpace, ChA}, ShortLen) \cup {LongText}

\* the wrapper calls that overlap
CallIds == {1, 2}

\* a call not made yet
NotStarted ==
    [pc |-> "none", op |-> "none", child |-> NoProc, total |-> NoProc,
     stdout |-> <<>>, stderr |-> <<>>, promise |-> Pending, alone |-> Pending,
     mixed |-> FALSE, errored |-> FALSE, first |-> Pending]

\* the paths the constructor tries, in its order
PossiblePaths ==
    <<"<__dirname>/../java-utils/target/sm2-service-1.0.0.jar",
      "<cwd>/java-utils/target/sm2-service-1.0.0.jar",
      "<__dirname>/../../java-utils/target/sm2-service-1.0.0.jar">>

\* no instance: the calls of Spec construct one each, and a constructor that
\* finds no JAR throws
NoInstance == [privateKey |-> <<>>, publicKey |-> <<>>, javaJarPath |-> ""]

\* constructor(privateKey, publicKey?): exists is the set of the possible
\* paths, by position, where fs.existsSync finds a file
Constructor(privateKey, publicKey, exists) ==
    IF exists = {} THEN NoInstance
    ELSE [privateKey |-> privateKey, publicKey |-> CtorPublicKey(publicKey),
          javaJarPath |-> PossiblePaths[CHOOSE i \in exists : \A j \in exists : i <= j]]

Init ==
    /\ keyPair = NoKeys
    /\ enc = Idle
    /\ cipher = NoCipher
    /\ prev = NoCipher
    /\ last = NoCall
    /\ calls = [c \in CallIds |-> NotStarted]
    /\ instance = NoInstance

\* ------------------------------------------------------------ actions
\* generateKeyPair(): the generator draws d
GenerateKeyPair ==
    /\ keyPair = NoKeys
    /\ \E d \in KeyScalars :
         /\ keyPair' = ServiceGenerateKeyPair(d)
         /\ last' = [NoCall EXCEPT !.op = "generateKeyPair",
                                   !.java = Returned(<<>>, 0, "none")]
    /\ UNCHANGED <<enc, cipher, prev, calls, instance>>

\* the library builds to tell apart on this input: one that checks inLen == 0
\* in processBlock (TRUE) and one that does not (FALSE)
EmptyChecks(in) == IF in = <<>> THEN BOOLEAN ELSE {TRUE}

\* encodings of the point of the uncompressed key pub, and strings that encode
\* no point: what Hex.decode, decodePoint and ECPublicKeyParameters tell apart
PublicKeyForms(pub) ==
    LET bytes == HexDecode(pub).bytes
        X     == SubSeq(bytes, 2, 1 + FieldLen)
        Y     == SubSeq(bytes, 2 + FieldLen, C1Len)
        yOdd  == OS2IP(Y) % 2
        yOff  == CHOOSE v \in 0..(CurveP - 1) : ~OnCurve(OS2IP(X), v)
    IN { ToHexString(<<2 + yOdd>> \o X),                  \* compressed
         ToHexString(<<6 + yOdd>> \o X \o Y),             \* hybrid
         ToHexString(<<0>>),                              \* the point at infinity
         ToHexString(<<4>> \o X \o I2OSP(yOff, FieldLen)),  \* not on the curve
         ToHexString(<<5>> \o X \o Y),                    \* no encoding has this prefix
         ToHexString(<<4>> \o X),                         \* too short for its prefix
         <<122, 122>> }                                   \* "zz": not hex

\* the calls of the wrapper's encrypt that are tried: new SM2Service(priv, ctor)
\* .encrypt(plainText, key).  A second call repeats the arguments of the first.
EncryptCalls ==
    IF last.op = "encrypt"
    THEN {[plainText |-> last.arg, ctor |-> last.ctor, key |-> last.key]}
    ELSE {[plainText |-> p, ctor |-> Undefined, key |-> Given(keyPair.pub)] :
             p \in Plaintexts}
         \cup {[plainText |-> <<ChA>>, ctor |-> c, key |-> a] :
                 c \in {Undefined, Given(keyPair.pub)},
                 a \in {Undefined, Given(<<>>)}
                       \cup {Given(f) : f \in PublicKeyForms(keyPair.pub)}}

\* wrapper.encrypt(plainText, publicKey) -> main --encrypt ->
\* SM2Service.encrypt, up to the entry of the engine's loop
EncryptBegin ==
    /\ \/ last.op = "generateKeyPair"
       \/ last.op = "encrypt" /\ last.promise.state = "resolved" /\ prev = NoCipher
    /\ \E call \in EncryptCalls :
       \E rejectsEmpty \in EmptyChecks(call.plainText) :
         LET pubKey == EncryptPubKey(call.key, CtorPublicKey(call.ctor))
             prep   == EncryptPrepare(call.plainText, pubKey)
             Of(c)  == [c EXCEPT !.ctor = call.ctor, !.key = call.key, !.pub = pubKey]
             Failed(m) == Of(Finished("encrypt", call.plainText, <<>>,
                                      "Encryption failed: ", "SM2 encryption failed: ",
                                      EncryptThrown(m)))
         IN IF pubKey = <<>> THEN
                /\ last' = Of([NoCall EXCEPT !.op = "encrypt", !.arg = call.plainText,
                                             !.promise = NoPublicKey])
                /\ enc' = Idle
            ELSE IF ~prep.ok THEN
                /\ last' = Failed(prep.msg)
                /\ enc' = Idle
            ELSE IF prep.bytes = <<>> /\ rejectsEmpty THEN
                /\ last' = Failed("input buffer too short")
                /\ enc' = Idle
            ELSE
                /\ last' = Of([NoCall EXCEPT !.op = "encrypt", !.arg = call.plainText,
                                             !.spawned = TRUE])
                /\ enc' = [pc |-> "loop", plain |-> call.plainText, pub |-> pubKey,
                           tries |-> 0]
    /\ prev' = cipher
    /\ cipher' = NoCipher
    /\ UNCHANGED <<keyPair, calls, instance>>

\* one pass of the engine's loop with a fresh k; the last pass returns through
\* encrypt, main and the wrapper's close handler
EncryptLoop ==
    /\ enc.pc = "loop"
    /\ enc.tries < MaxTries
    /\ \E k \in EphemeralScalars :
         LET prep == EncryptPrepare(enc.plain, enc.pub)
             pass == EncryptPass("C1C3C2", prep.bytes, prep.Q, k)
             done == Finished("encrypt", enc.plain, <<>>, "Encryption failed: ",
                              "SM2 encryption failed: ", EncryptReturned(pass.out))
         IN IF pass.retry THEN
                /\ enc' = [enc EXCEPT !.tries = @ + 1]
                /\ UNCHANGED <<cipher, last>>
            ELSE
                /\ enc' = Idle
                /\ last' = [done EXCEPT
                               !.op = last.op, !.ctor = last.ctor, !.key = last.key,
                               !.pub = last.pub,
                               !.promise = IF last.op = "encrypt" THEN @ ELSE Pending]
                /\ cipher' = [NoCipher EXCEPT
                                 !.hex = done.promise.value, !.plain = enc.plain,
                                 !.pub = enc.pub, !.k = k, !.mode = "C1C3C2",
                                 !.by = "encrypt", !.tries = enc.tries]
    /\ UNCHANGED <<keyPair, prev, calls, instance>>

\* another SM2 implementation encrypts for keyPair.publicKey: in the layout
\* C1C2C3, and the empty plaintext, which encrypt returns no ciphertext for,
\* in either layout
PeerEncrypt ==
    /\ last.op = "generateKeyPair"
    /\ \E plainText \in Plaintexts, k \in EphemeralScalars, mode \in Modes :
         LET prep == EncryptPrepare(plainText, keyPair.pub)
             pass == EncryptPass(mode, prep.bytes, prep.Q, k)
         IN /\ plainText = <<>> \/ ~pass.retry
            /\ plainText = <<>> \/ mode = "C1C2C3"
            /\ cipher' = [NoCipher EXCEPT
                             !.hex = ToHexString(pass.out), !.plain = plainText,
                             !.pub = keyPair.pub, !.k = k, !.mode = mode, !.by = "peer"]
            /\ last' = [NoCall EXCEPT !.op = "peer", !.arg = plainText]
    /\ UNCHANGED <<keyPair, enc, prev, calls, instance>>

\* where the MAC segment C3 starts in a ciphertext of the given layout
C3Offset(mode, plainLen) == IF mode = "C1C3C2" THEN C1Len ELSE C1Len + plainLen

\* one bit of the MAC segment is flipped in transit
Tamper ==
    /\ cipher # NoCipher
    /\ cipher.pub = keyPair.pub
    /\ prev = NoCipher
    /\ last.op \in {"encrypt", "peer"}
    /\ \E i \in 1..DigestSize, bit \in 0..7 :
         LET bytes == HexDecode(cipher.hex).bytes
             at    == C3Offset(cipher.mode, Len(cipher.plain)) + i
         IN cipher' = [cipher EXCEPT
                          !.hex = ToHexString([bytes EXCEPT ![at] = FlipBit(@, bit)]),
                          !.flip = <<i, bit>>]
    /\ last' = [NoCall EXCEPT !.op = "tamper"]
    /\ UNCHANGED <<keyPair, enc, prev, calls, instance>>

\* the ciphertext is cut to fewer bytes than C1 and C3 take
Truncate ==
    /\ cipher # NoCipher
    /\ cipher.pub = keyPair.pub
    /\ prev = NoCipher
    /\ last.op \in {"encrypt", "peer"}
    /\ \E n \in 0..(C1Len + DigestSize - 1) :
         cipher' = [cipher EXCEPT !.hex = SubSeq(@, 1, 2 * n), !.cut = TRUE]
    /\ last' = [NoCall EXCEPT !.op = "truncate"]
    /\ UNCHANGED <<keyPair, enc, prev, calls, instance>>

\* the characters put in place of a hex digit: 'z' and '-'
NonHexChars == {122, 45}

\* the ciphertext string is damaged: its first or its last character is
\* replaced by one that is no hex digit
Garble ==
    /\ cipher # NoCipher
    /\ cipher.pub = keyPair.pub
    /\ prev = NoCipher
    /\ last.op \in {"encrypt", "peer"}
    /\ \E i \in {1, Len(cipher.hex)}, c \in NonHexChars :
         cipher' = [cipher EXCEPT !.hex = [@ EXCEPT ![i] = c], !.garbled = TRUE]
    /\ last' = [NoCall EXCEPT !.op = "garble"]
    /\ UNCHANGED <<keyPair, enc, prev, calls, instance>>

\* the ciphertext at hand is as it was made
Intact == cipher # NoCipher /\ cipher.flip = <<>> /\ ~cipher.cut /\ ~cipher.garbled

\* new SM2Service(privateKey).decrypt(cipher) -> main --decrypt ->
\* SM2Service.decrypt -> the wrapper's close handler
Decrypt ==
    /\ cipher # NoCipher
    /\ prev = NoCipher
    /\ last.op # "decrypt"
    /\ \E d \in KeyScalars, rejectsEmpty \in EmptyChecks(cipher.hex) :
         LET privateKey == ServiceGenerateKeyPair(d).priv
         IN /\ (~Intact \/ cipher.by = "peer") => privateKey = keyPair.priv
            /\ last' = Finished("decrypt", cipher.hex, privateKey, "Decryption failed: ",
                                "SM2 decryption failed: ",
                                ServiceDecrypt(cipher.hex, privateKey, rejectsEmpty))
    /\ UNCHANGED <<keyPair, enc, cipher, prev, calls, instance>>

\* the argument lists main is started with from a shell: each known shape,
\* with arguments that succeed and that fail, and lists of no known shape
MainArgs ==
    LET A   == Text(<<ChA>>)
        zz  == Text(<<122, 122>>)
        pub == Text(keyPair.pub)
        prv == Text(keyPair.priv)
    IN { <<>>,
         <<Flag("--test")>>,
         <<Flag("--generate-keypair")>>,
         <<A>>,
         <<Flag("--test"), Flag("--test")>>,
         <<Flag("--generate-keypair"), A>>,
         <<Flag("--encrypt"), A>>,
         <<Flag("--encrypt"), A, Flag("--public-key"), pub>>,
         <<Flag("--encrypt"), Text(<<>>), Flag("--public-key"), pub>>,
         <<Flag("--encrypt"), A, Flag("--public-key"), zz>>,
         <<Flag("--encrypt"), A, Flag("--private-key"), pub>>,
         <<Flag("--encrypt"), A, Flag("--public-key"), pub, A>>,
         <<Flag("--decrypt"), zz, Flag("--private-key"), prv>>,
         <<Flag("--decrypt"), Text(<<>>), Flag("--private-key"), prv>>,
         <<Flag("--decrypt"), zz, Flag("--public-key"), prv>>,
         <<A, Flag("--decrypt"), zz, Flag("--private-key")>> }

\* the name a run of main has in last.op
MainOp(branch) ==
    IF branch = "usage" THEN "main"
    ELSE IF branch = "test" THEN "main --test"
    ELSE IF branch = "generate-keypair" THEN "main --generate-keypair"
    ELSE IF branch = "encrypt" THEN "main --encrypt"
    ELSE IF branch = "decrypt" THEN "main --decrypt"
    ELSE "main ?"

MainOps == {MainOp(b) : b \in {"usage", "test", "generate-keypair", "encrypt", "decrypt",
                                "invalid"}}

\* java -jar sm2-service.jar args..., started from a shell: main up to
\* System.exit, or up to the entry of the engine's loop
MainInvoke ==
    /\ last.op = "generateKeyPair"
    /\ \E args \in MainArgs, d \in KeyScalars, rejectsEmpty \in BOOLEAN :
         LET branch == MainBranch(args)
             Exited(java, proc) ==
                 [NoCall EXCEPT !.op = MainOp(branch), !.spawned = TRUE,
                                !.java = java, !.proc = proc]
             Ended(prefix, java) == Exited(java, MainFinish(prefix, java))
         IN IF branch = "usage" THEN
                /\ last' = Exited(Thrown(<<>>, 0), MainUsage)
                /\ enc' = Idle
            ELSE IF branch = "test" THEN
                /\ last' = Exited(Returned(AvailableText, 0, "none"), MainTest)
                /\ enc' = Idle
            ELSE IF branch = "generate-keypair" THEN
                LET made == ServiceGenerateKeyPair(d)
                    java == Returned(<<made.priv, made.pub>>, 0, "none")
                IN /\ last' = Exited(java, MainGenerateKeyPair(java))
                   /\ enc' = Idle
            ELSE IF branch = "encrypt" THEN
                LET plaintext == args[2].text
                    publicKey == args[4].text
                    prep      == EncryptPrepare(plaintext, publicKey)
                    Failed(m) == [Ended("Encryption failed: ", EncryptThrown(m))
                                     EXCEPT !.arg = plaintext, !.pub = publicKey]
                IN /\ rejectsEmpty \in EmptyChecks(plaintext)
                   /\ IF ~prep.ok THEN
                          /\ last' = Failed(prep.msg)
                          /\ enc' = Idle
                      ELSE IF prep.bytes = <<>> /\ rejectsEmpty THEN
                          /\ last' = Failed("input buffer too short")
                          /\ enc' = Idle
                      ELSE
                          /\ last' = [NoCall EXCEPT !.op = MainOp(branch),
                                                    !.arg = plaintext, !.pub = publicKey,
                                                    !.spawned = TRUE]
                          /\ enc' = [pc |-> "loop", plain |-> plaintext, pub |-> publicKey,
                                     tries |-> 0]
            ELSE IF branch = "decrypt" THEN
                LET encryptedData == args[2].text
                    privateKey    == args[4].text
                IN /\ rejectsEmpty \in EmptyChecks(encryptedData)
                   /\ last' = [Ended("Decryption failed: ",
                                     ServiceDecrypt(encryptedData, privateKey, rejectsEmpty))
                                  EXCEPT !.arg = encryptedData, !.priv = privateKey]
                   /\ enc' = Idle
            ELSE
                /\ last' = Exited(Thrown(<<>>, 0), MainInvalid)
                /\ enc' = Idle
    /\ UNCHANGED <<keyPair, cipher, prev, calls, instance>>

Next ==
    \/ MainInvoke
    \/ GenerateKeyPair
    \/ EncryptBegin
    \/ EncryptLoop
    \/ PeerEncrypt
    \/ Tamper
    \/ Truncate
    \/ Garble
    \/ Decrypt

Spec == Init /\ [][Next]_vars

\* ------------------------------------------------------------ overlapping calls
\* the private keys, the public-key arguments and the sets of existing JAR
\* paths the instance is constructed with
ConstructorCalls ==
    {[privateKey |-> ServiceGenerateKeyPair(d).priv, publicKey |-> pub, exists |-> ex] :
        d \in {1, 2},
        pub \in {Undefined, Given(ServiceGenerateKeyPair(1).pub)},
        ex \in {{1, 2, 3}, {3}}}

\* the calls made on the instance and what their child processes do.  encrypt
\* of "A" with no key argument and with one that is no point; decrypt of a
\* ciphertext of "A" for the key of d = 1; generateKeyPair, where the JAR at
\* the path prints both lines or, not being this build, the first line only;
\* isAvailable.  thrown: the call throws before it spawns.  heard: the wrapper
\* has 'data' handlers on the child's streams.
ConcurrentRuns(inst) ==
    LET pair   == ServiceGenerateKeyPair(1)
        prep   == EncryptPrepare(<<ChA>>, pair.pub)
        Ct(k)  == EncryptPass("C1C3C2", prep.bytes, prep.Q, k).out
        Run(op, proc) == [op |-> op, thrown |-> FALSE, heard |-> TRUE, proc |-> proc]
        EncryptRuns(arg) ==
            LET pubKey == EncryptPubKey(arg, inst.publicKey)
                p      == EncryptPrepare(<<ChA>>, pubKey)
            IN IF pubKey = <<>>
               THEN {[op |-> "encrypt", thrown |-> TRUE, heard |-> TRUE, proc |-> NoProc]}
               ELSE IF ~p.ok
               THEN {Run("encrypt", MainFinish("Encryption failed: ", EncryptThrown(p.msg)))}
               ELSE {Run("encrypt",
                         MainFinish("Encryption failed: ",
                                    EncryptReturned(EncryptPass("C1C3C2", p.bytes, p.Q, k).out))) :
                        k \in {1, 2}}
        KeyPairRuns ==
            LET made  == ServiceGenerateKeyPair(3)
                whole == MainGenerateKeyPair(Returned(<<made.priv, made.pub>>, 0, "none"))
            IN {Run("generateKeyPair", whole),
                Run("generateKeyPair",
                    [whole EXCEPT !.stdout = PrivateKeyLabel \o made.priv \o <<ChNewline>>])}
    IN EncryptRuns(Undefined) \cup EncryptRuns(Given(<<122, 122>>))
       \cup {Run("decrypt",
                 MainFinish("Decryption failed: ",
                            ServiceDecrypt(ToHexString(Ct(1)), inst.privateKey, TRUE)))}
       \cup KeyPairRuns
       \cup {[op |-> "isAvailable", thrown |-> FALSE, heard |-> FALSE, proc |-> MainTest]}

\* what the close and the error handler of the wrapper put before the message
PrefixClose(op) ==
    IF op = "encrypt" THEN "SM2 encryption failed: "
    ELSE IF op = "decrypt" THEN "SM2 decryption failed: "
    ELSE "SM2 key generation failed: "

PrefixError(op) ==
    IF op = "encrypt" THEN "SM2 encryption process failed: "
    ELSE IF op = "decrypt" THEN "SM2 decryption process failed: "
    ELSE "SM2 key generation process failed: "

\* the 'close' handler of the operation
CloseHandler(op, proc) ==
    IF op = "generateKeyPair" THEN OnCloseKeyPair(proc)
    ELSE IF op = "isAvailable" THEN OnCloseAvailable(proc)
    ELSE OnClose(PrefixClose(op), proc)

\* the 'error' handler of the operation
ErrorHandler(op, message) ==
    IF op = "isAvailable" THEN OnErrorAvailable
    ELSE [state |-> "rejected", value |-> <<>>, error |-> <<PrefixError(op), message>>]

\* a promise that takes the outcome of the last resolve or reject call
Settle_LastWins(promise, outcome) == outcome

\* resolve and reject settle a promise once; later calls change nothing
Settle(promise, outcome) == IF promise.state = "pending" THEN outcome ELSE promise

\* handlers that append to one pair of buffers for all calls
BufferOf_Shared(c) == 1

\* let stdout = ''; let stderr = '' inside the executor of the call's promise:
\* the buffers the handlers of call c append to and read are the call's own
BufferOf(c) == c

\* a generateKeyPair that installs the pair it resolves with in the instance
InstanceAfter_Installs(inst, op, settled) ==
    IF op = "generateKeyPair" /\ settled.state = "resolved"
    THEN [inst EXCEPT !.privateKey = settled.value[1], !.publicKey = settled.value[2]]
    ELSE inst

\* the fields of the instance after a handler of the operation has run: no
\* method but the constructor assigns this.privateKey, this.publicKey or
\* this.javaJarPath
InstanceAfter(inst, op, settled) == inst

\* the content of a stream that arrives in one 'data' event: all that is
\* left, or its first half
Chunks(rest) == {Len(rest)} \cup {n \in {Len(rest) \div 2} : n > 0}

\* the other call is in the middle of its output
MidOutput(c) ==
    /\ calls[c].pc = "running"
    /\ calls[c].child # calls[c].total
    /\ calls[c].child.stdout # <<>> \/ calls[c].child.stderr # <<>>

\* how the child of a call ends: it runs main to its exit, a signal ends it
\* before it wrote anything or after it wrote all, or spawn fails
ChildEnds == {"exit", "killed early", "killed late", "no spawn"}

ChildOf(run, end) ==
    LET out == IF run.heard THEN run.proc
               ELSE [run.proc EXCEPT !.stdout = <<>>, !.stderr = <<>>]
    IN IF end = "exit" THEN out
       ELSE IF end = "killed late" THEN [out EXCEPT !.code = ExitNull]
       ELSE IF end = "killed early" THEN [NoProc EXCEPT !.code = ExitNull]
       ELSE [NoProc EXCEPT !.code = -2]

\* the call of an operation up to its return: the check of the public key,
\* spawn('java', [...]) and the registration of the handlers
Start(c) ==
    /\ calls[c].pc = "none"
    /\ \E run \in ConcurrentRuns(instance), end \in ChildEnds :
         LET proc  == ChildOf(run, end)
             b     == BufferOf(c)
             reset == [calls EXCEPT ![b].stdout = <<>>, ![b].stderr = <<>>]
         IN calls' =
              IF run.thrown
              THEN [calls EXCEPT
                      ![c].pc = "thrown", ![c].op = run.op,
                      ![c].promise = NoPublicKey, ![c].alone = NoPublicKey,
                      ![c].first = NoPublicKey]
              ELSE [reset EXCEPT
                      ![c].pc = IF end = "no spawn" THEN "failing" ELSE "running",
                      ![c].op = run.op, ![c].child = proc, ![c].total = proc,
                      ![c].promise = Pending, ![c].mixed = FALSE,
                      ![c].alone = IF end = "no spawn"
                                   THEN ErrorHandler(run.op, "spawn java ENOENT")
                                   ELSE CloseHandler(run.op, proc)]
    /\ UNCHANGED <<keyPair, enc, cipher, prev, last, instance>>

\* javaProcess.stdout.on('data', data => { stdout += data.toString() })
StdoutData(c) ==
    /\ calls[c].pc = "running"
    /\ calls[c].child.stdout # <<>>
    /\ \E n \in Chunks(calls[c].child.stdout) :
         LET b    == BufferOf(c)
             rest == calls[c].child.stdout
             into == [calls EXCEPT ![b].stdout = @ \o SubSeq(rest, 1, n)]
         IN calls' = [into EXCEPT
                        ![c].child.stdout = SubSeqFrom(rest, n + 1),
                        ![c].mixed = @ \/ \E o \in CallIds \ {c} : MidOutput(o)]
    /\ UNCHANGED <<keyPair, enc, cipher, prev, last, instance>>

\* javaProcess.stderr.on('data', data => { stderr += data.toString() })
StderrData(c) ==
    /\ calls[c].pc = "running"
    /\ calls[c].child.stderr # <<>>
    /\ \E n \in Chunks(calls[c].child.stderr) :
         LET b    == BufferOf(c)
             rest == calls[c].child.stderr
             into == [calls EXCEPT ![b].stderr = @ \o SubSeq(rest, 1, n)]
         IN calls' = [into EXCEPT
                        ![c].child.stderr = SubSeqFrom(rest, n + 1),
                        ![c].mixed = @ \/ \E o \in CallIds \ {c} : MidOutput(o)]
    /\ UNCHANGED <<keyPair, enc, cipher, prev, last, instance>>

\* javaProcess.on('error', error => ...): spawn failed, or the child process
\* object reports an error after its 'close'
ErrorEvent(c) ==
    /\ \/ calls[c].pc = "failing"
       \/ calls[c].pc = "closed" /\ ~calls[c].errored
    /\ LET message == IF calls[c].pc = "failing" THEN "spawn java ENOENT"
                      ELSE "kill ESRCH"
           outcome == ErrorHandler(calls[c].op, message)
       IN /\ calls' = [calls EXCEPT
                         ![c].pc = IF @ = "failing" THEN "errored" ELSE @,
                         ![c].errored = TRUE,
                         ![c].first = IF calls[c].pc = "failing" THEN outcome ELSE @,
                         ![c].promise = Settle(@, outcome)]
          /\ instance' = InstanceAfter(instance, calls[c].op, outcome)
    /\ UNCHANGED <<keyPair, enc, cipher, prev, last>>

\* javaProcess.on('close', code => ...): the child has ended and its streams
\* are closed, so all their data has been delivered
Close(c) ==
    /\ \/ calls[c].pc = "errored"
       \/ /\ calls[c].pc = "running"
          /\ calls[c].child.stdout = <<>>
          /\ calls[c].child.stderr = <<>>
    /\ LET b       == BufferOf(c)
           seen    == [stdout |-> calls[b].stdout, stderr |-> calls[b].stderr,
                       code |-> calls[c].child.code]
           outcome == CloseHandler(calls[c].op, seen)
       IN /\ calls' = [calls EXCEPT
                         ![c].pc = "closed",
                         ![c].first = IF calls[c].pc = "running" THEN outcome ELSE @,
                         ![c].promise = Settle(@, outcome)]
          /\ instance' = InstanceAfter(instance, calls[c].op, outcome)
    /\ UNCHANGED <<keyPair, enc, cipher, prev, last>>

NextConc ==
    \E c \in CallIds :
        \/ Start(c)
        \/ StdoutData(c)
        \/ StderrData(c)
        \/ ErrorEvent(c)
        \/ Close(c)

\* the instance is constructed, no call is made yet
InitConc ==
    /\ keyPair = NoKeys
    /\ enc = Idle
    /\ cipher = NoCipher
    /\ prev = NoCipher
    /\ last = NoCall
    /\ calls = [c \in CallIds |-> NotStarted]
    /\ \E call \in ConstructorCalls :
         instance = Constructor(call.privateKey, call.publicKey, call.exists)

SpecConc == InitConc /\ [][NextConc]_vars

\* ------------------------------------------------------------ properties
MatchingKey == last.priv = keyPair.priv

\* both layout attempts were made and both threw
DecryptionFailed(outcome) ==
    /\ ~outcome.ok
    /\ outcome.value = <<>>
    /\ outcome.attempts = 2
    /\ Len(outcome.msg) = 3
    /\ outcome.msg[2] = "SM2 decryption failed with both C1C3C2 and C1C2C3 modes: "

\* every ciphertext encrypt returned decrypts to its plaintext under the
\* matching key (the plaintexts encrypt returns a ciphertext for)
RoundTripOfReturned ==
    (last.op = "decrypt" /\ Intact /\ cipher.by = "encrypt" /\ MatchingKey)
        => (last.java.ok /\ last.java.value = cipher.plain)

C2_EmptyPlaintext ==
    /\ (enc.pc = "loop" /\ enc.plain = <<>>) => enc.tries = 0
    /\ (last.op = "encrypt" /\ last.arg = <<>> /\ enc.pc = "idle") =>
           /\ last.java.ok
           /\ LET bytes == HexDecode(last.java.value).bytes
                  S     == PMul(cipher.k, DecodePoint(HexDecode(cipher.pub).bytes).pt)
              IN /\ Len(bytes) = C1Len + DigestSize
                 /\ SubSeqFrom(bytes, C1Len + 1) = Mac(S, <<>>)

\* C3: the wrapper hands the plaintext through unchanged: decrypt of what
\* encrypt returned for the string s resolves to exactly s, white space
\* included.
C3_WrapperFaithful ==
    (last.op = "decrypt" /\ Intact /\ cipher.by = "encrypt" /\ MatchingKey
        /\ last.promise.state = "resolved")
        => last.promise.value = cipher.plain

\* C4: tamper detection.  With one bit of the MAC segment of a valid
\* ciphertext of either layout flipped, decrypt under the matching private key
\* fails after both layout attempts and returns no plaintext.
C4_TamperDetected ==
    (last.op = "decrypt" /\ cipher.flip # <<>> /\ MatchingKey)
        => (DecryptionFailed(last.java) /\ last.promise.state = "rejected")

C4_Witness ==
    /\ last.op = "decrypt" /\ cipher.flip # <<>> /\ MatchingKey
    /\ cipher.mode = "C1C2C3" /\ cipher.plain = LongText /\ ~last.java.ok

\* C5: cross-mode interoperability.  An intact ciphertext of plaintext p in
\* layout C1C3C2 or in layout C1C2C3 decrypts to exactly p under the matching
\* private key; whichever layout attempt accepts it, the plaintext is p.
C5_CrossMode ==
    (last.op = "decrypt" /\ Intact /\ MatchingKey)
        => /\ last.java.ok
           /\ last.java.value = cipher.plain
           /\ last.java.layout \in Modes

C5_Witness ==
    /\ last.op = "decrypt" /\ Intact /\ MatchingKey
    /\ cipher.mode = "C1C2C3" /\ cipher.plain = LongText
    /\ last.java.layout = "C1C2C3" /\ last.java.attempts = 2

\* the private key of the decrypting instance is not the one of the public
\* key the ciphertext was made for: d' * G # Q
WrongKey ==
    PMul(ParseHex(last.priv), G) # DecodePoint(HexDecode(cipher.pub).bytes).pt

\* C6: wrong-key rejection.  decrypt of a ciphertext encrypt returned, under a
\* private key d' with d' * G # Q, fails after both layout attempts and
\* returns no plaintext.
C6_WrongKeyRejected ==
    (last.op = "decrypt" /\ Intact /\ cipher.by = "encrypt" /\ WrongKey)
        => (DecryptionFailed(last.java) /\ last.promise.state = "rejected")

C6_Witness ==
    /\ last.op = "decrypt" /\ Intact /\ cipher.by = "encrypt" /\ WrongKey
    /\ cipher.plain = LongText /\ last.promise.state = "rejected"

TwoCalls == prev # NoCipher /\ cipher # NoCipher

C1Hex(c) == SubSeq(c.hex, 1, 2 * C1Len)

\* C7 as stated: two encrypt calls with the same plaintext and public key never
\* use the same k, and return different ciphertexts.
C7_NeverTheSameScalar ==
    TwoCalls => (cipher.k # prev.k /\ cipher.hex # prev.hex)

\* C7 as amended: each of two encrypt calls with the same plaintext and public
\* key uses a scalar in [1, n-1]; whenever the two scalars differ, the two C1
\* and so the two ciphertexts differ.
C7_DistinctScalarsDistinctCiphertexts ==
    TwoCalls =>
        /\ cipher.plain = prev.plain /\ cipher.pub = prev.pub
        /\ cipher.k \in 1..(CurveN - 1) /\ prev.k \in 1..(CurveN - 1)
        /\ cipher.k # prev.k => (C1Hex(cipher) # C1Hex(prev) /\ cipher.hex # prev.hex)

C7_Witness == TwoCalls /\ cipher.k # prev.k /\ cipher.plain = LongText

AllLowerHex(str) == \A i \in 1..Len(str) : IsLowerHexChar(str[i])

\* C8: key format.  The private key generateKeyPair returns has exactly two
\* lowercase hex digits per key byte (64 for 32 bytes), left-padded with
\* zeros, the public key two per byte of 04 || X || Y (130), starting "04".
C8_KeyFormat ==
    keyPair # NoKeys =>
        /\ Len(keyPair.priv) = 2 * FieldLen
        /\ AllLowerHex(keyPair.priv)
        /\ Len(keyPair.pub) = 2 * (2 * FieldLen + 1)
        /\ AllLowerHex(keyPair.pub)
        /\ SubSeq(keyPair.pub, 1, 2) = <<48, 52>>

C8_Witness ==
    /\ last.op = "generateKeyPair"
    /\ Len(ToString16(ParseHex(keyPair.priv))) < 2 * FieldLen
    /\ keyPair.priv[1] = 48

\* C9: the private scalar generateKeyPair returns is in [1, n-1] and the
\* public key is the encoding of Q = d * G, a point of the curve other than
\* the point at infinity.
C9_KeyPairValid ==
    keyPair # NoKeys =>
        LET d   == ParseHex(keyPair.priv)
            dec == DecodePoint(HexDecode(keyPair.pub).bytes)
        IN /\ d >= 1 /\ d <= CurveN - 1
           /\ dec.ok /\ ~dec.pt.inf
           /\ OnCurve(dec.pt.x, dec.pt.y)
           /\ dec.pt = PMul(d, G)

C9_Witness ==
    last.op = "generateKeyPair" /\ ParseHex(keyPair.priv) = CurveN - 1

CurvePoints ==
    {q \in [inf : {FALSE}, x : 0..(CurveP - 1), y : 0..(CurveP - 1)] : OnCurve(q.x, q.y)}

Uncompressed(q) == <<4>> \o I2OSP(q.x, FieldLen) \o I2OSP(q.y, FieldLen)

\* the key is 04 || X || Y of a finite point of the curve
IsUncompressedKey(pubKey) ==
    LET hex == HexDecode(pubKey)
    IN hex.ok /\ \E q \in CurvePoints : hex.bytes = Uncompressed(q)

\* the key is the uncompressed, compressed or hybrid encoding of a finite
\* point of the curve
EncodesPoint(pubKey) ==
    LET hex == HexDecode(pubKey)
    IN hex.ok /\ \E q \in CurvePoints :
           hex.bytes \in { Uncompressed(q),
                           <<2 + (q.y % 2)>> \o I2OSP(q.x, FieldLen),
                           <<6 + (q.y % 2)>> \o I2OSP(q.x, FieldLen) \o I2OSP(q.y, FieldLen) }

RejectedForItsKey ==
    /\ enc.pc = "idle" /\ cipher = NoCipher
    /\ ~last.java.ok /\ last.java.value = <<>>
    /\ last.promise.state = "rejected"

C12_PublicKeyRequired ==
    (last.op = "encrypt" /\ ~last.key.given /\ ~last.ctor.given) =>
        /\ last.promise.state = "rejected"
        /\ last.promise.error = <<"Public key is required for encryption">>
        /\ ~last.spawned /\ last.proc = NoProc
        /\ enc.pc = "idle" /\ cipher = NoCipher

C12_Witness ==
    last.op = "encrypt" /\ ~last.key.given /\ ~last.ctor.given /\ ~last.spawned

\* the key the child process is given, where one is started
KeyInUse == IF enc.pc = "loop" THEN enc.pub ELSE IF last.java.ok THEN cipher.pub ELSE last.pub

\* C13 as stated: encrypt uses its argument when one is passed, and the
\* constructor's key exactly when none is passed.
C13_ArgumentWhenPassed ==
    (last.op = "encrypt" /\ last.spawned) =>
        KeyInUse = (IF last.key.given THEN last.key.str ELSE last.ctor.str)

\* C13 as amended: encrypt uses its argument when that is a non-empty string,
\* and the constructor's key when the argument is not passed or is the empty
\* string.
C13_KeyChoice ==
    (last.op = "encrypt" /\ last.spawned) =>
        KeyInUse = (IF last.key.given /\ last.key.str # <<>> THEN last.key.str
                    ELSE last.ctor.str)

C13_Witness ==
    /\ last.op = "encrypt" /\ last.spawned /\ last.java.ok
    /\ ~last.key.given /\ last.ctor.given /\ cipher.pub = last.ctor.str

\* C14: decrypt of a string that is not valid hex fails at once: Hex.decode
\* throws before either layout is attempted, the failure is reported as
\* "SM2 decryption failed: " with the decoder's message, and nothing is retried.
C14_BadHexFailsAtOnce ==
    (last.op = "decrypt" /\ ~HexDecode(last.arg).ok) =>
        /\ ~last.java.ok /\ last.java.value = <<>>
        /\ last.java.attempts = 0
        /\ last.java.msg = <<"SM2 decryption failed: ", "exception decoding Hex string">>
        /\ last.proc.code = 1 /\ last.promise.state = "rejected"

C14_Witness ==
    /\ last.op = "decrypt" /\ cipher.garbled /\ ~HexDecode(last.arg).ok
    /\ cipher.plain = LongText /\ last.promise.state = "rejected"

\* C15: the ciphertext encrypt returns for a plaintext of L bytes has exactly
\* C1Len + L + DigestSize bytes (65 + L + 32): C1 = k * G, then C3 of
\* DigestSize bytes, then C2 of exactly L bytes; it is returned as lowercase
\* hex, two digits per byte, without separators.
C15_CiphertextLayout ==
    (last.op = "encrypt" /\ last.java.ok) =>
        LET hex   == last.java.value
            bytes == HexDecode(hex).bytes
            L     == Len(Utf8Encode(last.arg))
            S     == PMul(cipher.k, DecodePoint(HexDecode(cipher.pub).bytes).pt)
        IN /\ AllLowerHex(hex)
           /\ Len(hex) = 2 * (C1Len + L + DigestSize)
           /\ Len(bytes) = C1Len + L + DigestSize
           /\ SubSeq(bytes, 1, C1Len) = EncodePoint(PMul(cipher.k, G))
           /\ SubSeq(bytes, C1Len + 1, C1Len + DigestSize) = Mac(S, Utf8Encode(last.arg))
           /\ Len(SubSeqFrom(bytes, C1Len + DigestSize + 1)) = L
           /\ SubSeqFrom(bytes, C1Len + DigestSize + 1) = Kdf(S, Utf8Encode(last.arg))
           /\ last.promise.state = "resolved" /\ last.promise.value = hex

C15_Witness ==
    /\ last.op = "encrypt" /\ last.java.ok /\ last.arg = LongText
    /\ Len(HexDecode(last.java.value).bytes) = C1Len + LongLen + DigestSize

\* what the engine makes of the bytes and the private key of the last decrypt
\* call in the given layout (an empty input fails in every build)
AttemptOf(mode) ==
    EngineDecrypt(mode, HexDecode(last.arg).bytes, ParseHex(last.priv), TRUE)

\* C16: decrypt attempts layout C1C3C2 first and layout C1C2C3 only if that
\* attempt failed; it returns the plaintext of the first attempt that passes
\* the MAC comparison; the second attempt is made on the same ciphertext bytes
\* and private key as the first, and nothing of the failed attempt is returned.
C16_FirstLayoutFirst ==
    (last.op = "decrypt" /\ HexDecode(last.arg).ok) =>
        LET a1 == AttemptOf("C1C3C2")
            a2 == AttemptOf("C1C2C3")
        IN IF a1.ok THEN last.java = Returned(Utf8Decode(a1.out), 1, "C1C3C2")
           ELSE IF a2.ok THEN last.java = Returned(Utf8Decode(a2.out), 2, "C1C2C3")
           ELSE ~last.java.ok /\ last.java.value = <<>> /\ last.java.attempts = 2

C16_Witness ==
    /\ last.op = "decrypt" /\ HexDecode(last.arg).ok
    /\ last.java.ok /\ last.java.value = <<ChA, ChSpace>>
    /\ ~AttemptOf("C1C3C2").ok /\ AttemptOf("C1C2C3").ok

\* C17: when both layout attempts fail, decrypt reports one outcome, the same
\* (message included) whichever step failed: an invalid C1, a point at
\* infinity, a ciphertext too short or a MAC mismatch all look to the caller
\* like the MAC mismatch does.
C17_OneFailureOutcome ==
    (last.op = "decrypt" /\ DecryptionFailed(last.java)) =>
        /\ last.java.msg[3] = "invalid cipher text"
        /\ last.promise.error =
               <<"SM2 decryption failed: ", "Decryption failed: ", "SM2 decryption failed: ",
                 "SM2 decryption failed with both C1C3C2 and C1C2C3 modes: ",
                 "invalid cipher text", "\n">>

\* C18: encrypt always ends: its retry loop makes at most a bounded number of
\* attempts, and a call whose attempts were all degenerate has by then failed
\* instead of still being in the loop.
C18_BoundedRetries == enc.pc = "loop" => enc.tries < MaxTries

\* the shared point and the key stream of the pass that made the ciphertext
SharedPoint(c) == PMul(c.k, DecodePoint(HexDecode(c.pub).bytes).pt)

KeyStream(c) == KdfStream(PointZ(SharedPoint(c)), 1, Len(Utf8Encode(c.plain)))

\* C19: no ciphertext encrypt returned comes from a degenerate pass: in the
\* pass that made it S = k * publicKey is not the point at infinity and the
\* key stream is not all zero; a pass whose key stream is all zero is followed
\* by another pass with a newly drawn k.
C19_NoDegenerateCiphertext ==
    (last.op = "encrypt" /\ last.java.ok) =>
        LET t == KeyStream(cipher)
        IN /\ cipher.by = "encrypt" /\ cipher.hex = last.java.value
           /\ cipher.k \in 1..(CurveN - 1)
           /\ ~SharedPoint(cipher).inf
           /\ t # [i \in 1..Len(t) |-> 0]

C19_Witness ==
    /\ cipher # NoCipher /\ cipher.by = "encrypt" /\ cipher.tries > 0
    /\ last.op = "encrypt" /\ last.java.ok

\* C20: calls running at the same time are independent: however the data,
\* close and error events of two calls of the wrapper interleave, each call
\* settles with the result it has when it runs alone, and its buffers hold
\* nothing but what its own child process wrote.
C20_Independent ==
    \A c \in CallIds :
        /\ calls[c].promise \in {Pending, calls[c].alone}
        /\ calls[c].pc = "closed" => calls[c].promise = calls[c].alone
        /\ calls[c].pc = "running" =>
               /\ calls[c].stdout \o calls[c].child.stdout = calls[c].total.stdout
               /\ calls[c].stderr \o calls[c].child.stderr = calls[c].total.stderr

C20_Witness ==
    /\ \A c \in CallIds : calls[c].pc = "closed" /\ calls[c].mixed
    /\ calls[1].promise.state = "resolved" /\ calls[1].promise.value # <<>>
    /\ calls[2].promise.state = "rejected" /\ calls[2].promise = calls[2].alone

\* the calls of encrypt and decrypt that reached spawn
Spawned(c) == calls[c].op \in {"encrypt", "decrypt"} /\ calls[c].pc # "thrown"

\* what the call's child wrote in all, as the close handler of the call alone
\* sees it
AllOutput(c) == calls[c].total

\* spawn failed: 'error' came before 'close', whose code is the errno
SpawnFailed(c) == calls[c].total.code = -2

\* C21 as stated: the promise of encrypt and decrypt resolves if and only if
\* the child closes with exit code 0, and then with all stdout received before
\* the close; on any other exit code, null included, it rejects with an error
\* carrying the child's stderr, or the exit code when stderr is empty.
C21_AsStated ==
    \A c \in CallIds : Spawned(c) =>
        /\ calls[c].promise.state = "resolved" <=>
               (calls[c].pc = "closed" /\ calls[c].child.code = 0)
        /\ calls[c].promise.state = "resolved" =>
               calls[c].promise.value = AllOutput(c).stdout
        /\ (calls[c].pc = "closed" /\ calls[c].child.code # 0) =>
               /\ calls[c].promise.state = "rejected"
               /\ calls[c].promise.error =
                      <<PrefixClose(calls[c].op)>> \o StderrOrCode(AllOutput(c))

\* C21: the promise of encrypt and decrypt resolves if and only if the child
\* closes with exit code 0, and then with all stdout received before the
\* close, less the white space at its two ends; on any other exit code, null
\* included, it rejects with an error carrying the child's stderr, or the exit
\* code when stderr is empty, unless spawn failed: then the error is the one
\* the 'error' handler made of the spawn error.  A settled promise holds a
\* value or an error, never both.
C21_SettledByClose ==
    \A c \in CallIds : Spawned(c) =>
        /\ calls[c].promise.state = "resolved" <=>
               (calls[c].pc = "closed" /\ calls[c].child.code = 0)
        /\ calls[c].promise.state = "resolved" =>
               /\ calls[c].stdout = AllOutput(c).stdout
               /\ calls[c].promise.value = Trim(AllOutput(c).stdout)
               /\ calls[c].promise.error = <<>>
        /\ (calls[c].pc = "closed" /\ calls[c].child.code # 0) =>
               /\ calls[c].promise.state = "rejected"
               /\ calls[c].promise.value = <<>>
               /\ calls[c].promise.error =
                      IF SpawnFailed(c)
                      THEN <<PrefixError(calls[c].op), "spawn java ENOENT">>
                      ELSE <<PrefixClose(calls[c].op)>> \o StderrOrCode(AllOutput(c))

C21_Witness ==
    /\ Spawned(1) /\ calls[1].pc = "closed" /\ calls[1].promise.state = "resolved"
    /\ calls[1].promise.value # <<>> /\ calls[1].promise.value # AllOutput(1).stdout
    /\ Spawned(2) /\ calls[2].pc = "closed" /\ calls[2].child.code = ExitNull
    /\ calls[2].promise.error =
           <<PrefixClose(calls[2].op), "Process exited with code ", "null">>

\* the call's child has emitted 'error' or 'close'
Emitted(c) == calls[c].pc \in {"errored", "closed"}

\* C22: every call of the wrapper settles exactly once: once the child has
\* emitted 'error' or 'close' the promise is no longer pending, and it holds
\* the outcome the handler of the first of the two events gave it, whether the
\* other event came later or not, in either order.
C22_SettlesOnce ==
    \A c \in CallIds :
        /\ Emitted(c) => calls[c].promise.state # "pending"
        /\ Emitted(c) => calls[c].promise = calls[c].first
        /\ ~Emitted(c) /\ calls[c].pc # "thrown" => calls[c].promise = Pending

C22_Witness ==
    /\ calls[1].pc = "closed" /\ calls[1].errored /\ SpawnFailed(1)
    /\ calls[1].op = "generateKeyPair" /\ calls[1].promise.state = "rejected"
    /\ calls[2].pc = "closed" /\ calls[2].errored /\ ~SpawnFailed(2)
    /\ calls[2].op = "encrypt" /\ calls[2].promise.state = "resolved"

\* C23: no operation of the wrapper changes the fields of the instance: in
\* every step of encrypt, decrypt, generateKeyPair and isAvailable, whether
\* the call succeeds or fails, privateKey, publicKey and the JAR path stay
\* what the constructor set; generateKeyPair returns the new pair and does not
\* install it.
C23_KeysUnchanged == [][instance' = instance]_vars

C23_Witness ==
    /\ calls[1].op = "generateKeyPair" /\ calls[1].pc = "closed"
    /\ calls[1].promise.state = "resolved"
    /\ calls[1].promise.value[1] # instance.privateKey
    /\ calls[1].promise.value[2] # instance.publicKey
    /\ calls[2].op = "decrypt" /\ calls[2].pc = "closed"
    /\ calls[2].promise.state = "rejected"
    /\ \E call \in ConstructorCalls :
         /\ instance = Constructor(call.privateKey, call.publicKey, call.exists)
         /\ instance.publicKey # <<>>
         /\ instance.javaJarPath = PossiblePaths[3]

\* the two lines main prints for the pair the generator made
PrintedPair(c) ==
    LET lines == Split(Trim(AllOutput(c).stdout), ChNewline)
    IN [both       |-> Len(lines) = 2 /\ StartsWith(lines[1], PrivateKeyLabel)
                       /\ StartsWith(lines[2], PublicKeyLabel),
        privateKey |-> SubSeqFrom(lines[1], Len(PrivateKeyLabel) + 1),
        publicKey  |-> SubSeqFrom(lines[Len(lines)], Len(PublicKeyLabel) + 1)]

\* C25: generateKeyPair resolves only when the child exited with code 0 and
\* its stdout holds both a "Private Key: " and a "Public Key: " line, and then
\* with exactly the two values printed; when the code is not 0 or a line is
\* missing it rejects, and no part of a key pair is returned.
C25_WholePairOrNone ==
    \A c \in CallIds : calls[c].op = "generateKeyPair" =>
        /\ calls[c].promise.state = "resolved" =>
               /\ calls[c].pc = "closed" /\ calls[c].child.code = 0
               /\ PrintedPair(c).both
               /\ calls[c].promise.value =
                      <<PrintedPair(c).privateKey, PrintedPair(c).publicKey>>
               /\ \E d \in KeyScalars :
                      LET made == ServiceGenerateKeyPair(d)
                      IN calls[c].promise.value = <<made.priv, made.pub>>
        /\ (calls[c].pc = "closed" /\ (calls[c].child.code # 0 \/ ~PrintedPair(c).both)) =>
               /\ calls[c].promise.state = "rejected"
               /\ calls[c].promise.value = <<>>

C25_Witness ==
    /\ calls[1].op = "generateKeyPair" /\ calls[1].pc = "closed"
    /\ calls[1].promise.state = "resolved" /\ Len(calls[1].promise.value) = 2
    /\ calls[2].op = "generateKeyPair" /\ calls[2].pc = "closed"
    /\ calls[2].child.code = 0 /\ ~PrintedPair(2).both
    /\ calls[2].promise.error = <<"Failed to parse key pair from output">>

\* a run of main, started by the wrapper or from a shell, that has exited
Exited == last.spawned /\ enc.pc # "loop"

\* what main prints on stdout for the result of the operation
ResultPrinted ==
    IF last.op = "main --generate-keypair"
    THEN PrivateKeyLabel \o last.java.value[1] \o <<ChNewline>>
         \o PublicKeyLabel \o last.java.value[2] \o <<ChNewline>>
    ELSE last.java.value \o <<ChNewline>>

\* the exit code of a run of main that has exited is 0 or 1: 0 only when the
\* arguments had one of the four shapes and the operation succeeded, with its
\* result on stdout and nothing on stderr; 1, with text on stderr only, when
\* the operation failed, when there were no arguments and for any other shape
ExitCodeOfExited ==
    Exited =>
        /\ last.proc.code \in {0, 1}
        /\ last.proc.code = 0 <=> last.java.ok
        /\ last.proc.code = 0 =>
               /\ last.op \in {"encrypt", "decrypt", "main --test",
                               "main --generate-keypair", "main --encrypt",
                               "main --decrypt"}
               /\ last.proc.stdout = ResultPrinted
               /\ last.proc.stderr = <<>>
        /\ last.proc.code = 1 =>
               /\ last.proc.stdout = <<>>
               /\ last.proc.stderr # <<>>
        /\ last.op \in {"main", "main ?"} => last.proc.code = 1

====
